---- MODULE Spec2Model ----
(***************************************************************************)
(* A model of download_sentinel1.py: one run of the script, from the       *)
(* parsed command line to the end of the run.  The remote catalogue (the   *)
(* sentinelsat client) is the environment: a search returns some result    *)
(* set or fails, a status call answers online, offline or fails, and a     *)
(* download call succeeds or fails.  Every remote call and every printed   *)
(* line is appended to `log`, in program order.                            *)
(***************************************************************************)
EXTENDS Integers, Sequences, FiniteSets, TLC

\* ------------------------------------------------------------------ bounds
\* number of products in the remote catalogue
NumUUIDs == 2
\* longest result set a search returns
MaxProducts == 2

\* ------------------------------------------------------- values and inputs
\* Python's None (argparse's default for an option that was not given).
None == "<None>"

\* bool(v) for a value that is None or a string.
Truthy(v) == v # None /\ v # ""

\* The lists of the membership tests in __main__.
ValidProductTypes == {"GRD", "SLC", "OCN"}
ValidOrbits == {"ascending", "descending"}

\* Values the command line can carry.
FootprintValues == {None, "", "aoi/AOI.geojson"}
DateValues == {None, "", "20190201", "20190816", "20190230"}
ProductTypeValues == {None, ""} \cup ValidProductTypes \cup {"XYZ"}
PassDirectionValues == {None, ""} \cup ValidOrbits \cup {"north"}
OutdirValues == {None, "out"}

UUIDs == 1..NumUUIDs

\* The title the catalogue holds for a product id.
TitleOf(u) == <<"S1_title", u>>

\* A row of the dataframe returned by query.
Row(u) == [title |-> TitleOf(u), uuid |-> u]

IsDistinct(s) == \A i, j \in 1..Len(s) : i # j => s[i] # s[j]

\* The result sets a search can return: the catalogue keys products by
\* their id, so a result set holds each id at most once.
ResultSets ==
  UNION {{s \in [1..n -> UUIDs] : IsDistinct(s)} : n \in 0..MaxProducts}

\* ------------------------------------------------------------ date parsing
\* The characters of a date string, as digits.
Chars(s) ==
  CASE s = "20190201" -> <<2, 0, 1, 9, 0, 2, 0, 1>>
    [] s = "20190816" -> <<2, 0, 1, 9, 0, 8, 1, 6>>
    [] s = "20190230" -> <<2, 0, 1, 9, 0, 2, 3, 0>>
    [] OTHER -> <<>>

IsLeap(y) == (y % 4 = 0 /\ y % 100 # 0) \/ y % 400 = 0

DaysIn(y, m) ==
  IF m = 2 THEN (IF IsLeap(y) THEN 29 ELSE 28)
  ELSE IF m \in {4, 6, 9, 11} THEN 30 ELSE 31

\* pd.to_datetime(s, format='%Y%m%d'): the fields of the parsed date, or
\* <<>> when the string is no date of that format (ValueError).
to_datetime(s) ==
  LET c == Chars(s) IN
  IF Len(c) # 8 THEN <<>>
  ELSE LET y == c[1] * 1000 + c[2] * 100 + c[3] * 10 + c[4]
           m == c[5] * 10 + c[6]
           d == c[7] * 10 + c[8]
       IN IF m \in 1..12 /\ d \in 1..DaysIn(y, m) THEN <<y, m, d>> ELSE <<>>

\* Timestamp comparison a < b.
DateLess(a, b) ==
  \/ a[1] < b[1]
  \/ a[1] = b[1] /\ a[2] < b[2]
  \/ a[1] = b[1] /\ a[2] = b[2] /\ a[3] < b[3]

\* ------------------------------------------------------------------- state
VARIABLES
  args,              \* the parsed command line (argparse namespace)
  env,               \* TRUE when the credentials are set and the footprint file reads
  pc,                \* position in the script
  qargs,             \* the arguments of the call to query
  products,          \* the variable `products` of __main__
  products_online,   \* is_online's list
  products_offline,  \* is_online's list
  idx,               \* row the running loop is at
  output,            \* the downloader's output directory
  log,               \* remote calls and printed lines, in order
  outcome            \* how the run ended

vars == <<args, env, pc, qargs, products, products_online, products_offline,
          idx, output, log, outcome>>

\* One entry of the log.
\* A keyword argument that the search call does not carry.
Absent == "<absent>"

NoKw == [date |-> <<>>, platformname |-> Absent,
         producttype |-> Absent, orbitdirection |-> Absent]

\* `products` before any assignment to it, and after one.
Unbound == [bound |-> FALSE, rows |-> <<>>]
Bound(rows) == [bound |-> TRUE, rows |-> rows]

Ev(stage, kind, text, uuid, kw, res, n1, n2) ==
  [stage |-> stage, kind |-> kind, text |-> text, uuid |-> uuid,
   kw |-> kw, res |-> res, n1 |-> n1, n2 |-> n2]

Printed(stage, text) == Ev(stage, "print", text, 0, NoKw, "", 0, 0)
PrintedTitle(stage, text, u) == Ev(stage, "print", text, u, NoKw, "", 0, 0)
PrintedCount(stage, text, n1, n2) == Ev(stage, "print", text, 0, NoKw, "", n1, n2)
SearchCall(kw, res, branch) == Ev("query", "search", "", 0, kw, res, branch, 0)
StatusCall(stage, u, res) == Ev(stage, "status", "", u, NoKw, res, 0, 0)
DownloadCall(u, out, res) == Ev("download", "download", out, u, NoKw, res, 0, 0)

\* No call of query yet.
NoQuery == [called |-> FALSE, prod_type |-> None, pass_direction |-> None]

Init ==
  /\ args \in [footprint : FootprintValues,
               start_date : DateValues,
               end_date : DateValues,
               product_type : ProductTypeValues,
               pass_direction : PassDirectionValues,
               download : BOOLEAN,
               online : BOOLEAN,
               outdir : OutdirValues]
  /\ env \in BOOLEAN
  /\ pc = "main"
  /\ qargs = NoQuery
  /\ products = Unbound
  /\ products_online = <<>>
  /\ products_offline = <<>>
  /\ idx = 0
  /\ output = None
  /\ log = <<>>
  /\ outcome = "running"

\* The run ends here, with an exit or an uncaught exception.
Ends(how) == pc' = "done" /\ outcome' = how

\* ------------------------------------------------------------- __main__
\* The chain with `and` for `or` in the test of the dates.
MainBranch_BothDatesMissing(a) ==
  IF ~Truthy(a.start_date) /\ ~Truthy(a.end_date) THEN "missing_dates"
  ELSE IF Truthy(a.product_type) /\ ~Truthy(a.pass_direction) THEN "product_only"
  ELSE IF Truthy(a.pass_direction) /\ ~Truthy(a.product_type) THEN "pass_only"
  ELSE IF Truthy(a.pass_direction) /\ Truthy(a.product_type) THEN "both"
  ELSE "no_filter"

\* The if/elif chain of lines 284-329: which arm runs.
MainBranch(a) ==
  IF ~Truthy(a.start_date) \/ ~Truthy(a.end_date) THEN "missing_dates"
  ELSE IF Truthy(a.product_type) /\ ~Truthy(a.pass_direction) THEN "product_only"
  ELSE IF Truthy(a.pass_direction) /\ ~Truthy(a.product_type) THEN "pass_only"
  ELSE IF Truthy(a.pass_direction) /\ Truthy(a.product_type) THEN "both"
  ELSE "no_filter"

\* The membership tests of lines 289, 300 and 311-316.
ProductTypeOk(a) == a.product_type \in ValidProductTypes
PassDirectionOk(a) == a.pass_direction \in ValidOrbits

\* A call of query(...) from __main__.
CallQuery(pt, pd) ==
  /\ pc' = "query"
  /\ qargs' = [called |-> TRUE, prod_type |-> pt, pass_direction |-> pd]
  /\ UNCHANGED <<log, outcome>>

\* An arm that only prints: control falls through to line 331.
PrintAndFallThrough(text) ==
  /\ pc' = "line331"
  /\ log' = Append(log, Printed("main", text))
  /\ UNCHANGED <<qargs, outcome>>

\* lines 279-282
MainMissingFootprint ==
  /\ pc = "main"
  /\ ~Truthy(args.footprint)
  /\ log' = Append(log, Printed("main", "parser.error: footprint"))
  /\ Ends("parser_error")
  /\ UNCHANGED <<args, env, qargs, products, products_online,
                 products_offline, idx, output>>

\* lines 284-286
MainMissingDates ==
  /\ pc = "main"
  /\ Truthy(args.footprint)
  /\ MainBranch(args) = "missing_dates"
  /\ log' = Append(log, Printed("main", "parser.error: dates"))
  /\ Ends("parser_error")
  /\ UNCHANGED <<args, env, qargs, products, products_online,
                 products_offline, idx, output>>

\* lines 288-297
MainProductOnly ==
  /\ pc = "main"
  /\ Truthy(args.footprint)
  /\ MainBranch(args) = "product_only"
  /\ IF ~ProductTypeOk(args)
       THEN PrintAndFallThrough("invalid product")
       ELSE CallQuery(args.product_type, None)
  /\ UNCHANGED <<args, env, products, products_online, products_offline,
                 idx, output>>

\* lines 299-308
MainPassOnly ==
  /\ pc = "main"
  /\ Truthy(args.footprint)
  /\ MainBranch(args) = "pass_only"
  /\ IF ~PassDirectionOk(args)
       THEN PrintAndFallThrough("invalid orbit")
       ELSE CallQuery(None, args.pass_direction)
  /\ UNCHANGED <<args, env, products, products_online, products_offline,
                 idx, output>>

\* lines 310-326
MainBoth ==
  /\ pc = "main"
  /\ Truthy(args.footprint)
  /\ MainBranch(args) = "both"
  /\ IF ~PassDirectionOk(args) \/ ~ProductTypeOk(args)
       THEN PrintAndFallThrough("invalid product or orbit")
       ELSE CallQuery(args.product_type, args.pass_direction)
  /\ UNCHANGED <<args, env, products, products_online, products_offline,
                 idx, output>>

\* lines 328-329
MainNoFilter ==
  /\ pc = "main"
  /\ Truthy(args.footprint)
  /\ MainBranch(args) = "no_filter"
  /\ CallQuery(None, None)
  /\ UNCHANGED <<args, env, products, products_online, products_offline,
                 idx, output>>

\* ---------------------------------------------------------------- query
\* The chain with the pass-direction arm attaching the wrong keyword.
QuerySearch_WrongKeyword(q, date) ==
  LET base == [NoKw EXCEPT !.date = date, !.platformname = "Sentinel-1"] IN
  IF q.prod_type = None /\ q.pass_direction = None
    THEN [branch |-> 1, kw |-> base]
  ELSE IF Truthy(q.pass_direction) /\ ~Truthy(q.prod_type)
    THEN [branch |-> 2,
          kw |-> [base EXCEPT !.producttype = q.pass_direction]]
  ELSE IF Truthy(q.prod_type) /\ ~Truthy(q.pass_direction)
    THEN [branch |-> 3,
          kw |-> [base EXCEPT !.producttype = q.prod_type]]
  ELSE [branch |-> 4,
        kw |-> [base EXCEPT !.producttype = q.prod_type,
                            !.orbitdirection = q.pass_direction]]

\* The if/elif chain of lines 109-139: the arm taken and the keywords of
\* its api.query call.
QuerySearch(q, date) ==
  LET base == [NoKw EXCEPT !.date = date, !.platformname = "Sentinel-1"] IN
  IF q.prod_type = None /\ q.pass_direction = None
    THEN [branch |-> 1, kw |-> base]
  ELSE IF Truthy(q.pass_direction) /\ ~Truthy(q.prod_type)
    THEN [branch |-> 2,
          kw |-> [base EXCEPT !.orbitdirection = q.pass_direction]]
  ELSE IF Truthy(q.prod_type) /\ ~Truthy(q.pass_direction)
    THEN [branch |-> 3,
          kw |-> [base EXCEPT !.producttype = q.prod_type]]
  ELSE [branch |-> 4,
        kw |-> [base EXCEPT !.producttype = q.prod_type,
                            !.orbitdirection = q.pass_direction]]

\* The assert with <= for <.
DatesInOrder_NonStrict(d0, d1) == DateLess(d0, d1) \/ d0 = d1

\* The assert of lines 106-107.
DatesInOrder(d0, d1) == DateLess(d0, d1)

\* lines 93-140, one call of query
query ==
  /\ pc = "query"
  /\ \E result \in ResultSets, answered \in BOOLEAN :
       LET d0 == to_datetime(args.start_date)
           d1 == to_datetime(args.end_date)
           s == QuerySearch(qargs, <<args.start_date, args.end_date>>)
       IN
       IF ~env
         THEN Ends("PreludeError") /\ UNCHANGED <<log, products>>
       ELSE IF d0 = <<>> \/ d1 = <<>>
         THEN Ends("ValueError") /\ UNCHANGED <<log, products>>
       ELSE IF ~DatesInOrder(d0, d1)
         THEN Ends("AssertionError") /\ UNCHANGED <<log, products>>
       ELSE IF ~answered
         THEN /\ log' = Append(log, SearchCall(s.kw, "fail", s.branch))
              /\ Ends("SearchError")
              /\ UNCHANGED products
       ELSE /\ log' = log \o <<SearchCall(s.kw, "ok", s.branch),
                               PrintedCount("query", "scenes found",
                                            Len(result), 0)>>
            /\ products' = Bound([i \in 1..Len(result) |-> Row(result[i])])
            /\ pc' = "line331"
            /\ UNCHANGED outcome
  /\ UNCHANGED <<args, env, qargs, products_online, products_offline,
                 idx, output>>

\* ------------------------------------------------------------ is_online
\* The answers of api.get_product_odata: meta['Online'] true or false, or
\* the call raises.
StatusAnswers == {"online", "offline", "fail"}

\* A failed call that is swallowed instead of propagating.
Raises_Swallowed(answer) == FALSE

\* An exception raised by a remote call is caught nowhere: it ends the
\* loop, the function and the script (lines 162 and 207).
Raises(answer) == answer = "fail"

\* The title appended to the online list whatever meta['Online'] says.
Classify_AlwaysOnline(meta, online, offline) ==
  [online |-> Append(online, meta.title), offline |-> offline]

\* lines 163-166: the list the title goes to.
Classify(meta, online, offline) ==
  IF meta.Online
    THEN [online |-> Append(online, meta.title), offline |-> offline]
    ELSE [online |-> online, offline |-> Append(offline, meta.title)]

\* line 331: the test of the --online flag.
OnlineRequested(a) == a.online

\* lines 331-332
MainOnlineStep ==
  /\ pc = "line331"
  /\ IF ~OnlineRequested(args)
       THEN pc' = "line334" /\ UNCHANGED <<idx, outcome>>
     ELSE IF ~products.bound
       THEN Ends("NameError") /\ UNCHANGED idx
     ELSE pc' = "is_online" /\ idx' = 1 /\ UNCHANGED outcome
  /\ UNCHANGED <<args, env, qargs, products, products_online,
                 products_offline, output, log>>

\* lines 157-166, one iteration of the loop
is_online_row ==
  /\ pc = "is_online"
  /\ idx <= Len(products.rows)
  /\ \E answer \in StatusAnswers :
       LET uuid == products.rows[idx].uuid
           meta == [Online |-> answer = "online", title |-> TitleOf(uuid)]
       IN
       /\ log' = Append(log, StatusCall("is_online", uuid, answer))
       /\ IF Raises(answer)
            THEN /\ Ends("StatusError")
                 /\ UNCHANGED <<products_online, products_offline, idx>>
          ELSE /\ LET lists == Classify(meta, products_online, products_offline)
                  IN /\ products_online' = lists.online
                     /\ products_offline' = lists.offline
               /\ idx' = idx + 1
               /\ UNCHANGED <<pc, outcome>>
  /\ UNCHANGED <<args, env, qargs, products, output>>

\* [print(prod) for prod in titles]
PrintTitles(text, titles) ==
  [i \in 1..Len(titles) |-> PrintedTitle("is_online", text, titles[i][2])]

\* The summary with the first test reduced to len(products_offline) == 0.
Summary_NoOnlineTest(online, offline) ==
  IF Len(offline) = 0
    THEN <<PrintedCount("is_online", "all online", Len(online), 0)>>
         \o PrintTitles("online title", online)
  ELSE IF Len(offline) > 0 /\ Len(online) = 0
    THEN <<PrintedCount("is_online", "all offline", 0, Len(offline))>>
         \o PrintTitles("offline title", offline)
  ELSE <<PrintedCount("is_online", "online and offline found",
                      Len(online), Len(offline)),
         Printed("is_online", "Online products")>>
       \o PrintTitles("online title", online)
       \o <<Printed("is_online", "offline products")>>
       \o PrintTitles("offline title", offline)

\* lines 168-185: what is_online prints after the loop
Summary(online, offline) ==
  IF Len(offline) = 0 /\ Len(online) > 0
    THEN <<PrintedCount("is_online", "all online", Len(online), 0)>>
         \o PrintTitles("online title", online)
  ELSE IF Len(offline) > 0 /\ Len(online) = 0
    THEN <<PrintedCount("is_online", "all offline", 0, Len(offline))>>
         \o PrintTitles("offline title", offline)
  ELSE <<PrintedCount("is_online", "online and offline found",
                      Len(online), Len(offline)),
         Printed("is_online", "Online products")>>
       \o PrintTitles("online title", online)
       \o <<Printed("is_online", "offline products")>>
       \o PrintTitles("offline title", offline)

\* lines 168-185, then the return to line 334
is_online_summary ==
  /\ pc = "is_online"
  /\ idx > Len(products.rows)
  /\ log' = log \o Summary(products_online, products_offline)
  /\ pc' = "line334"
  /\ UNCHANGED <<args, env, qargs, products, products_online,
                 products_offline, idx, output, outcome>>

\* ------------------------------------------------------------- download
\* Path.cwd()
Cwd == "<cwd>"

\* The output directory chosen by lines 334-339.
ChosenOutput(a) == IF ~Truthy(a.outdir) THEN Cwd ELSE a.outdir

\* A download with the test of --download dropped.
DownloadRequested_Always(a) == TRUE

\* lines 334 and 338: the test of the --download flag.
DownloadRequested(a) == a.download

\* lines 334-339
MainDownloadStep ==
  /\ pc = "line334"
  /\ IF ~DownloadRequested(args)
       THEN Ends("ok") /\ UNCHANGED <<idx, output>>
     ELSE IF ~products.bound
       THEN Ends("NameError") /\ UNCHANGED <<idx, output>>
     ELSE /\ pc' = "download"
          /\ idx' = 1
          /\ output' = ChosenOutput(args)
          /\ UNCHANGED outcome
  /\ UNCHANGED <<args, env, qargs, products, products_online,
                 products_offline, log>>

\* The row downloaded without looking at meta['Online'].
RowLog_IgnoresStatus(uuid, online, out, downloaded) ==
  <<PrintedTitle("download", "is online", uuid),
    DownloadCall(uuid, out, IF downloaded THEN "ok" ELSE "fail")>>

\* lines 208-212: what one row adds to the log once its status is known.
RowLog(uuid, online, out, downloaded) ==
  IF online
    THEN <<PrintedTitle("download", "is online", uuid),
           DownloadCall(uuid, out, IF downloaded THEN "ok" ELSE "fail")>>
    ELSE <<PrintedTitle("download", "is not online", uuid)>>

\* lines 202-212, one iteration of the loop
download_row ==
  /\ pc = "download"
  /\ idx <= Len(products.rows)
  /\ \E answer \in StatusAnswers, downloaded \in BOOLEAN :
       LET uuid == products.rows[idx].uuid
           status == StatusCall("download", uuid, answer)
           meta == [Online |-> answer = "online", title |-> TitleOf(uuid)]
           rowlog == RowLog(uuid, meta.Online, output, downloaded)
       IN
       IF Raises(answer)
         THEN /\ log' = Append(log, status)
              /\ Ends("StatusError")
              /\ UNCHANGED idx
       ELSE /\ log' = log \o <<status>> \o rowlog
            /\ IF \E i \in 1..Len(rowlog) :
                      rowlog[i].kind = "download" /\ rowlog[i].res = "fail"
                 THEN Ends("DownloadError") /\ UNCHANGED idx
                 ELSE idx' = idx + 1 /\ UNCHANGED <<pc, outcome>>
  /\ UNCHANGED <<args, env, qargs, products, products_online,
                 products_offline, output>>

\* the loop of download ends, and with it the script
download_return ==
  /\ pc = "download"
  /\ idx > Len(products.rows)
  /\ Ends("ok")
  /\ UNCHANGED <<args, env, qargs, products, products_online,
                 products_offline, idx, output, log>>

Next ==
  \/ MainMissingFootprint
  \/ MainMissingDates
  \/ MainProductOnly
  \/ MainPassOnly
  \/ MainBoth
  \/ MainNoFilter
  \/ query
  \/ MainOnlineStep
  \/ is_online_row
  \/ is_online_summary
  \/ MainDownloadStep
  \/ download_row
  \/ download_return

Spec == Init /\ [][Next]_vars

\* ---------------------------------------------------------- properties
LogIdx == 1..Len(log)
IsCall(e) == e.kind \in {"search", "status", "download"}
SearchCalls == {i \in LogIdx : log[i].kind = "search"}
StageLog(stage) == SelectSeq(log, LAMBDA e : e.stage = stage)
NoRemoteCall == \A i \in LogIdx : ~IsCall(log[i])
NoStatusOrDownloadCall ==
  \A i \in LogIdx : log[i].kind \notin {"status", "download"}

ValidDate(s) == to_datetime(s) # <<>>

\* Both dates parse and the start date is not before the end date.
StartNotBeforeEnd ==
  /\ ValidDate(args.start_date)
  /\ ValidDate(args.end_date)
  /\ ~DateLess(to_datetime(args.start_date), to_datetime(args.end_date))

\* Both dates parse and the start date is before the end date.
StartBeforeEnd ==
  /\ ValidDate(args.start_date)
  /\ ValidDate(args.end_date)
  /\ DateLess(to_datetime(args.start_date), to_datetime(args.end_date))

\* query was called, found the credentials and read the footprint, and
\* has returned or raised.
QueryCheckedDates == qargs.called /\ env /\ pc # "query"

\* C1: when the start date is not before the end date (equal dates
\* included), no search call is ever issued in the run, and a call of query
\* that gets as far as the dates ends the run with the AssertionError of
\* lines 106-107.
C1_DateOrderRejected ==
  StartNotBeforeEnd =>
    /\ SearchCalls = {}
    /\ QueryCheckedDates => (pc = "done" /\ outcome = "AssertionError")

C1_Witness ==
  /\ args.start_date = args.end_date
  /\ StartNotBeforeEnd
  /\ QueryCheckedDates
  /\ outcome = "AssertionError"

\* A value was supplied for a filter and it is not one of the valid ones.
InvalidFilterSupplied ==
  \/ args.product_type # None /\ args.product_type \notin ValidProductTypes
  \/ args.pass_direction # None /\ args.pass_direction \notin ValidOrbits

\* C2: a command line with a supplied --product_type outside GRD, SLC, OCN
\* or a supplied --pass_direction outside ascending, descending never calls
\* query and never issues a search call.
C2_InvalidFilterNeverQueries ==
  InvalidFilterSupplied => (~qargs.called /\ SearchCalls = {})

\* is_online has printed its summary.
CheckerFinished ==
  \E i \in LogIdx :
    /\ log[i].stage = "is_online"
    /\ log[i].kind = "print"
    /\ log[i].text \in {"all online", "all offline", "online and offline found"}

Occurrences(seq, x) == Cardinality({i \in 1..Len(seq) : seq[i] = x})

\* The checker's status call for product u answered a.
CheckerAnswered(u, a) ==
  \E i \in LogIdx :
    /\ log[i].stage = "is_online"
    /\ log[i].kind = "status"
    /\ log[i].uuid = u
    /\ log[i].res = a

\* C3: once the checker has gone through a result set with every status
\* call answered, each record's title is in exactly one of the two lists,
\* once, in the online list exactly when its status call said online; the
\* sizes of the lists sum to the number of records; and if every record was
\* reported online the offline list is empty.
C3_Partition ==
  CheckerFinished =>
    LET rows == products.rows IN
    /\ \A k \in 1..Len(rows) :
         /\ Occurrences(products_online, rows[k].title)
              + Occurrences(products_offline, rows[k].title) = 1
         /\ Occurrences(products_online, rows[k].title) = 1
              <=> CheckerAnswered(rows[k].uuid, "online")
    /\ Len(products_online) + Len(products_offline) = Len(rows)
    /\ (\A k \in 1..Len(rows) : CheckerAnswered(rows[k].uuid, "online"))
         => products_offline = <<>>

C3_Witness ==
  /\ CheckerFinished
  /\ Len(products_online) >= 1
  /\ Len(products_offline) >= 1

\* The directory the downloader is expected to write to.
ExpectedOutput == IF args.outdir \in {None, ""} THEN Cwd ELSE args.outdir

\* What the downloader is expected to log for the rows whose status calls
\* are st, the outcome of each download call left open.
RECURSIVE ExpectedDownloadLog(_)
ExpectedDownloadLog(st) ==
  IF st = <<>> THEN <<>>
  ELSE LET e == Head(st) IN
       <<e>>
       \o (IF e.res = "online"
             THEN <<PrintedTitle("download", "is online", e.uuid),
                    DownloadCall(e.uuid, ExpectedOutput, "")>>
           ELSE IF e.res = "offline"
             THEN <<PrintedTitle("download", "is not online", e.uuid)>>
           ELSE <<>>)
       \o ExpectedDownloadLog(Tail(st))

EraseDownloadResult(seq) ==
  [i \in 1..Len(seq) |->
     IF seq[i].kind = "download" THEN [seq[i] EXCEPT !.res = ""] ELSE seq[i]]

DownloaderStatusCalls ==
  SelectSeq(StageLog("download"), LAMBDA e : e.kind = "status")

\* C4: the downloader's status calls follow the result set, one per record
\* and in its order; a record reported offline gets the skip notice and no
\* download call, a record reported online gets one download call with its
\* id and the chosen output directory; and a download run that ends
\* normally has made the status call of every record.
C4_DownloadPerRecord ==
  LET st == DownloaderStatusCalls
      rows == products.rows
  IN
  /\ Len(st) <= Len(rows)
  /\ \A j \in 1..Len(st) : st[j].uuid = rows[j].uuid
  /\ EraseDownloadResult(StageLog("download")) = ExpectedDownloadLog(st)
  /\ (pc = "done" /\ outcome = "ok" /\ args.download) => Len(st) = Len(rows)

C4_Witness ==
  /\ pc = "done"
  /\ outcome = "ok"
  /\ args.download
  /\ \E i, j \in 1..Len(DownloaderStatusCalls) :
       /\ DownloaderStatusCalls[i].res = "online"
       /\ DownloaderStatusCalls[j].res = "offline"

EmptyResult == products.bound /\ products.rows = <<>>

\* C5: with an empty result set the checker makes no status call and what
\* it prints reports zero online and zero offline products, and the
\* downloader makes no call and prints nothing.
C5_EmptyResult ==
  EmptyResult =>
    /\ NoStatusOrDownloadCall
    /\ StageLog("download") = <<>>
    /\ (args.online /\ pc \in {"line334", "download", "done"}) =>
         StageLog("is_online") =
           <<PrintedCount("is_online", "online and offline found", 0, 0),
             Printed("is_online", "Online products"),
             Printed("is_online", "offline products")>>

C5_Witness ==
  /\ EmptyResult
  /\ args.online
  /\ args.download
  /\ pc = "done"
  /\ outcome = "ok"

\* The arm of query's chain that belongs to the filters given.
ExpectedBranch(q) ==
  IF q.prod_type = None /\ q.pass_direction = None THEN 1
  ELSE IF q.prod_type = None THEN 2
  ELSE IF q.pass_direction = None THEN 3
  ELSE 4

\* C6: a call of query with dates in order issues exactly one search call
\* (none otherwise), from the arm of the filters given, and that call
\* carries producttype exactly when a product type was given and
\* orbitdirection exactly when a pass direction was given, with the values
\* given.
C6_OneSearchWithGivenFilters ==
  /\ Cardinality(SearchCalls) <= 1
  /\ \A i \in SearchCalls :
       /\ log[i].n1 = ExpectedBranch(qargs)
       /\ log[i].kw.producttype # Absent <=> qargs.prod_type # None
       /\ log[i].kw.orbitdirection # Absent <=> qargs.pass_direction # None
       /\ qargs.prod_type # None => log[i].kw.producttype = qargs.prod_type
       /\ qargs.pass_direction # None =>
            log[i].kw.orbitdirection = qargs.pass_direction
  /\ (QueryCheckedDates /\ StartBeforeEnd) => Cardinality(SearchCalls) = 1

C6_Witness ==
  /\ qargs.prod_type = None
  /\ qargs.pass_direction # None
  /\ \E i \in SearchCalls : log[i].n1 = 2

InvalidMessagePrinted ==
  \E i \in LogIdx :
    /\ log[i].stage = "main"
    /\ log[i].text \in {"invalid product", "invalid orbit",
                        "invalid product or orbit"}

\* C7: once the invalid product type or pass direction message is printed
\* the run makes no status call and no download call, and it ends without
\* raising an error.
C7_InvalidFilterEndsQuietly ==
  InvalidMessagePrinted =>
    /\ NoStatusOrDownloadCall
    /\ pc = "done" => outcome = "ok"

\* The stage of a remote call: 1 the search, 2 the checker, 3 the downloader.
Rank(e) ==
  IF e.kind = "search" THEN 1 ELSE IF e.stage = "is_online" THEN 2 ELSE 3

\* C8: the remote calls of a run come in stage order: at most one search
\* call, then the checker's status calls, and only with --online, then the
\* downloader's status and download calls, and only with --download.
C8_StageOrder ==
  /\ Cardinality(SearchCalls) <= 1
  /\ \A i, j \in LogIdx :
       (i < j /\ IsCall(log[i]) /\ IsCall(log[j])) =>
         Rank(log[i]) <= Rank(log[j])
  /\ \A i \in LogIdx :
       /\ (IsCall(log[i]) /\ log[i].stage = "is_online") =>
            (args.online /\ log[i].kind = "status")
       /\ (IsCall(log[i]) /\ log[i].stage = "download") => args.download
       /\ log[i].kind = "search" => log[i].stage = "query"

C8_Witness ==
  /\ \E i \in LogIdx : log[i].kind = "search"
  /\ \E i \in LogIdx : log[i].kind = "status" /\ log[i].stage = "is_online"
  /\ \E i \in LogIdx : log[i].kind = "status" /\ log[i].stage = "download"
  /\ \E i \in LogIdx : log[i].kind = "download"

MissingRequired ==
  \/ ~Truthy(args.footprint)
  \/ ~Truthy(args.start_date)
  \/ ~Truthy(args.end_date)

\* C9: with the footprint, the start date or the end date missing, the run
\* ends in parser.error, with its message and nothing else printed, query
\* is not called and no remote call is issued.
C9_MissingArgument ==
  MissingRequired =>
    /\ NoRemoteCall
    /\ ~qargs.called
    /\ pc \in {"main", "done"}
    /\ pc = "done" =>
         /\ outcome = "parser_error"
         /\ Len(log) = 1
         /\ log[1].kind = "print"
         /\ log[1].text \in {"parser.error: footprint", "parser.error: dates"}

C9_Witness ==
  /\ Truthy(args.footprint)
  /\ args.start_date = None
  /\ Truthy(args.end_date)
  /\ outcome = "parser_error"

\* C10: a status call that fails, in the checker or in the downloader, is
\* the last thing the run does: the run has ended with that failure, and
\* no status call (a retry included) and no download call comes after it.
C10_StatusFailureEndsRun ==
  \A i \in LogIdx :
    (log[i].kind = "status" /\ log[i].res = "fail") =>
      /\ i = Len(log)
      /\ pc = "done"
      /\ outcome = "StatusError"

C10_Witness ==
  /\ Len(products.rows) = 2
  /\ args.download
  /\ Len(log) >= 1
  /\ log[Len(log)].kind = "status"
  /\ log[Len(log)].stage = "is_online"
  /\ log[Len(log)].res = "fail"
  /\ Occurrences([i \in LogIdx |-> log[i].kind], "status") = 1

====
